---------------------------- MODULE Spec2Model ----------------------------
(***************************************************************************)
(* Model of generateDraft (src/src/services/generateDraft.ts).             *)
(*                                                                         *)
(* Text that the code inspects character by character (the provider's      *)
(* reply, which goes through two regular expressions, trim() and           *)
(* JSON.parse) is a sequence of lexemes: every punctuation or white-space  *)
(* character is a lexeme of its own, and a maximal run of other characters *)
(* (a word) is one lexeme.  The string the program sees is the             *)
(* concatenation of the lexemes.  The module is ASCII, so the backtick,    *)
(* the bullet and the rocket are written <bt>, <U+2022> and <U+1F680>.     *)
(* Strings the code only concatenates (the output) are sequences of the    *)
(* pieces in concatenation order.                                          *)
(***************************************************************************)
EXTENDS Integers, Sequences, FiniteSets, TLC

VARIABLES env, rawStories, currentDate, stage, useOpenAI, useDeepseek,
          messages, requests, completion, rawJSON, cleanJSON,
          parsedResponse, contentArray, result, error

vars == <<env, rawStories, currentDate, stage, useOpenAI, useDeepseek,
          messages, requests, completion, rawJSON, cleanJSON,
          parsedResponse, contentArray, result, error>>

(***************************************************************************)
(* Bounds of the model.                                                    *)
(***************************************************************************)
MaxItems == 2   \* longest item array the provider is made to return
MaxGap == 2     \* most white space between a code fence and the content

(***************************************************************************)
(* JavaScript values.                                                      *)
(***************************************************************************)
Undefined == [t |-> "undefined"]
Null == [t |-> "null"]
Bool(b) == [t |-> "bool", v |-> b]
Num(n) == [t |-> "num", v |-> n]
Str(s) == [t |-> "str", v |-> s]
Arr(s) == [t |-> "arr", v |-> s]
Obj(members) == [t |-> "obj", v |-> members]
NativeFn(name) == [t |-> "fn", v |-> name]
Text(lexemes) == [t |-> "text", v |-> lexemes]

\* ToBoolean, as used by !x, !!x and ||
Truthy(x) ==
  CASE x.t = "undefined" -> FALSE
    [] x.t = "null" -> FALSE
    [] x.t = "bool" -> x.v
    [] x.t = "num" -> x.v # 0
    [] x.t = "str" -> x.v # ""
    [] x.t = "text" -> x.v # <<>>
    [] OTHER -> TRUE

\* a || b
OrElse(a, b) == IF Truthy(a) THEN a ELSE b

\* reading a property of undefined or null throws a TypeError
Readable(x) == x.t \notin {"undefined", "null"}

RECURSIVE LookupMember(_, _, _)
LookupMember(members, k, i) ==
  IF i = 0 THEN Undefined
  ELSE IF members[i].k = k THEN members[i].val
  ELSE LookupMember(members, k, i - 1)

\* x.k for a readable x: own members of a parsed object (the last of
\* duplicate keys wins), and the built-in members the code can reach
GetProp(x, k) ==
  CASE x.t = "obj" -> LookupMember(x.v, k, Len(x.v))
    [] x.t = "arr" -> IF k = "length" THEN Num(Len(x.v))
                      ELSE IF k = "map" THEN NativeFn("map")
                      ELSE Undefined
    [] x.t = "str" -> IF k = "length" THEN Num(Len(x.v))
                      ELSE IF k = "link" THEN NativeFn("link")
                      ELSE Undefined
    [] OTHER -> Undefined

RECURSIVE ToStr(_), JoinValues(_)
\* Array.prototype.join(","), which Array.prototype.toString uses
JoinValues(s) ==
  IF s = <<>> THEN ""
  ELSE LET h == IF Readable(Head(s)) THEN ToStr(Head(s)) ELSE "" IN
       IF Len(s) = 1 THEN h ELSE h \o "," \o JoinValues(Tail(s))

\* ToString, as applied by ${...} in a template literal
ToStr(x) ==
  CASE x.t = "undefined" -> "undefined"
    [] x.t = "null" -> "null"
    [] x.t = "bool" -> IF x.v THEN "true" ELSE "false"
    [] x.t = "num" -> ToString(x.v)
    [] x.t = "str" -> x.v
    [] x.t = "arr" -> JoinValues(x.v)
    [] x.t = "obj" -> "[object Object]"
    [] OTHER -> "function " \o x.v \o "() { [native code] }"

\* F applied to the value of v, which is computed once
Once(v, F(_)) == CHOOSE r \in {F(x) : x \in {v}} : TRUE

(***************************************************************************)
(* Lexemes.                                                                *)
(***************************************************************************)
BT == "<bt>"
\* \s of the regular expressions and the white space trim() removes
IsSpace(c) == c \in {" ", "\n", "\t"}
\* the white space JSON.parse skips between tokens
IsJsonWs(c) == c \in {" ", "\n", "\t"}

RECURSIVE SkipSpace(_)
SkipSpace(s) ==
  IF s # <<>> /\ IsSpace(Head(s)) THEN SkipSpace(Tail(s)) ELSE s

RECURSIVE LastNonSpace(_, _)
\* index of the last lexeme of s[1..i] that is not white space, 0 if none
LastNonSpace(s, i) ==
  IF i = 0 THEN 0
  ELSE IF IsSpace(s[i]) THEN LastNonSpace(s, i - 1)
  ELSE i

(***************************************************************************)
(* The sanitizer, lines 83-86.                                             *)
(***************************************************************************)
RECURSIVE RemoveJsonFences(_)
\* .replace(/```json\s*/g, ''): every occurrence, left to right, each with
\* the white space that follows it
RemoveJsonFences(s) ==
  IF s = <<>> THEN <<>>
  ELSE IF Len(s) >= 4 /\ s[1] = BT /\ s[2] = BT /\ s[3] = BT /\ s[4] = "json"
       THEN RemoveJsonFences(SkipSpace(SubSeq(s, 5, Len(s))))
  ELSE <<Head(s)>> \o RemoveJsonFences(Tail(s))

\* .replace(/```\s*$/g, ''): three backticks followed only by white space
\* up to the end of the text
RemoveTrailingFence(s) ==
  LET k == LastNonSpace(s, Len(s)) IN
  IF k >= 3 /\ s[k] = BT /\ s[k - 1] = BT /\ s[k - 2] = BT
  THEN SubSeq(s, 1, k - 3)
  ELSE s

\* .trim()
Trim(s) ==
  LET t == SkipSpace(s) IN SubSeq(t, 1, LastNonSpace(t, Len(t)))

Sanitize(s) ==
  Once(RemoveJsonFences(s), LAMBDA a :
    Once(RemoveTrailingFence(a), LAMBDA b : Trim(b)))

(***************************************************************************)
(* JSON.parse, line 88, over lexemes.  A result is [ok, val, rest].        *)
(***************************************************************************)
NumberLexemes == {"0", "5"}
NumberValue(w) == IF w = "0" THEN 0 ELSE 5

ParseFail == [ok |-> FALSE, val |-> Undefined, rest |-> <<>>]
ParseOk(x, rest) == [ok |-> TRUE, val |-> x, rest |-> rest]

RECURSIVE SkipWs(_)
SkipWs(s) ==
  IF s # <<>> /\ IsJsonWs(Head(s)) THEN SkipWs(Tail(s)) ELSE s

RECURSIVE ParseString(_, _)
\* after the opening quote; a raw control character ends the parse
ParseString(s, acc) ==
  IF s = <<>> THEN ParseFail
  ELSE IF Head(s) = "\"" THEN ParseOk(Str(acc), Tail(s))
  ELSE IF Head(s) \in {"\n", "\t"} THEN ParseFail
  ELSE ParseString(Tail(s), acc \o Head(s))

RECURSIVE ParseValue(_), ParseElements(_, _), ParseMembers(_, _)
\* the value that starts at the first lexeme of s
ValueAt(s) ==
  IF s = <<>> THEN ParseFail
  ELSE CASE Head(s) = "null" -> ParseOk(Null, Tail(s))
         [] Head(s) = "true" -> ParseOk(Bool(TRUE), Tail(s))
         [] Head(s) = "false" -> ParseOk(Bool(FALSE), Tail(s))
         [] Head(s) \in NumberLexemes -> ParseOk(Num(NumberValue(Head(s))), Tail(s))
         [] Head(s) = "\"" -> ParseString(Tail(s), "")
         [] Head(s) = "[" ->
              Once(SkipWs(Tail(s)), LAMBDA t :
                IF t # <<>> /\ Head(t) = "]" THEN ParseOk(Arr(<<>>), Tail(t))
                ELSE ParseElements(t, <<>>))
         [] Head(s) = "{" ->
              Once(SkipWs(Tail(s)), LAMBDA t :
                IF t # <<>> /\ Head(t) = "}" THEN ParseOk(Obj(<<>>), Tail(t))
                ELSE ParseMembers(t, <<>>))
         [] OTHER -> ParseFail

ParseValue(s) == Once(SkipWs(s), LAMBDA t : ValueAt(t))

\* after an element e: a comma and more elements, or the closing bracket
AfterElement(e, t, acc) ==
  IF t = <<>> THEN ParseFail
  ELSE IF Head(t) = "," THEN ParseElements(Tail(t), Append(acc, e.val))
  ELSE IF Head(t) = "]" THEN ParseOk(Arr(Append(acc, e.val)), Tail(t))
  ELSE ParseFail

ParseElements(s, acc) ==
  Once(ParseValue(s), LAMBDA e :
    IF ~e.ok THEN ParseFail
    ELSE Once(SkipWs(e.rest), LAMBDA t : AfterElement(e, t, acc)))

\* after a member key: e: a comma and more members, or the closing brace
AfterMember(key, e, t, acc) ==
  IF t = <<>> THEN ParseFail
  ELSE IF Head(t) = ","
       THEN ParseMembers(Tail(t), Append(acc, [k |-> key.val.v, val |-> e.val]))
  ELSE IF Head(t) = "}"
       THEN ParseOk(Obj(Append(acc, [k |-> key.val.v, val |-> e.val])), Tail(t))
  ELSE ParseFail

\* after a key: the colon and the value
AfterKey(key, u, acc) ==
  IF u = <<>> \/ Head(u) # ":" THEN ParseFail
  ELSE Once(ParseValue(Tail(u)), LAMBDA e :
         IF ~e.ok THEN ParseFail
         ELSE Once(SkipWs(e.rest), LAMBDA t : AfterMember(key, e, t, acc)))

ParseMembers(s, acc) ==
  Once(SkipWs(s), LAMBDA t :
    IF t = <<>> \/ Head(t) # "\"" THEN ParseFail
    ELSE Once(ParseString(Tail(t), ""), LAMBDA key :
           IF ~key.ok THEN ParseFail
           ELSE Once(SkipWs(key.rest), LAMBDA u : AfterKey(key, u, acc))))

\* the whole text must be one value; anything else is a SyntaxError
JSONparse(s) ==
  Once(ParseValue(s), LAMBDA r :
    IF r.ok /\ SkipWs(r.rest) = <<>> THEN [ok |-> TRUE, val |-> r.val]
    ELSE [ok |-> FALSE, val |-> Undefined])

(***************************************************************************)
(* What the provider may write: the text of choices[0].message.content,    *)
(* lines 58 and 73.  The system instruction (lines 32-34) asks for an      *)
(* object with a key interestingTweetsOrStories holding items with a       *)
(* description and a story_or_tweet_link; the code also accepts stories,   *)
(* headline and link (lines 92, 103-104).  The provider is not bound to    *)
(* any of it, so other shapes and broken texts are written as well.        *)
(***************************************************************************)
RECURSIVE Flatten(_, _)
\* the texts of parts, one after the other, sep between two of them
Flatten(parts, sep) ==
  IF parts = <<>> THEN <<>>
  ELSE IF Len(parts) = 1 THEN parts[1]
  ELSE parts[1] \o sep \o Flatten(Tail(parts), sep)

Quoted(w) == IF w = "" THEN <<"\"", "\"">> ELSE <<"\"", w, "\"">>
Member(k, valueText) == Quoted(k) \o <<":">> \o valueText
ObjectText(memberTexts) == <<"{">> \o Flatten(memberTexts, <<",">>) \o <<"}">>
ArrayText(elementTexts) == <<"[">> \o Flatten(elementTexts, <<",">>) \o <<"]">>

\* a field of an item: left out, the empty string, or a value
FieldText(k, how, value) ==
  CASE how = "absent" -> <<>>
    [] how = "empty" -> <<Member(k, Quoted(""))>>
    [] OTHER -> <<Member(k, Quoted(value))>>

ItemText(d, h, s, l) ==
  ObjectText(FieldText("description", d, "B") \o FieldText("headline", h, "A")
             \o FieldText("story_or_tweet_link", s, "http://y")
             \o FieldText("link", l, "http://x"))

ObjectItemTexts ==
  {ItemText(d, h, s, l) : d \in {"absent", "empty", "set"}, h \in {"absent", "set"},
                          s \in {"absent", "empty", "set"}, l \in {"absent", "set"}}

\* items that are not objects
OddItemTexts == {<<"null">>, <<"5">>, Quoted("abc")}

\* the items longer arrays are made of
SecondItemText ==
  ObjectText(<<Member("description", Quoted("C")),
               Member("story_or_tweet_link", Quoted("http://z"))>>)

ShortItemTexts ==
  {ItemText("set", "absent", "set", "absent"), SecondItemText,
   ItemText("absent", "set", "absent", "set"), <<"null">>}

ArrayTexts ==
  {ArrayText(<<>>)}
  \cup {ArrayText(<<i>>) : i \in ObjectItemTexts \cup OddItemTexts}
  \cup UNION {{ArrayText(f) : f \in [1..n -> ShortItemTexts]} : n \in 2..MaxItems}

\* values under the collection key that are no array
NonArrayTexts ==
  {<<"null">>, Quoted(""), Quoted("abc"), <<"0">>, <<"5">>, <<"true">>, <<"false">>,
   ObjectText(<<>>), ObjectText(<<Member("length", <<"0">>)>>),
   ObjectText(<<Member("length", <<"5">>)>>)}

CollectionTexts == ArrayTexts \cup NonArrayTexts

FewCollectionTexts ==
  {ArrayText(<<>>), ArrayText(<<ItemText("set", "absent", "set", "absent")>>),
   <<"null">>, Quoted("")}

OtherCollectionText == ArrayText(<<ItemText("absent", "set", "absent", "set")>>)

WellFormedTexts ==
  {ObjectText(<<Member("interestingTweetsOrStories", c)>>) : c \in CollectionTexts}
  \cup {ObjectText(<<Member("stories", c)>>) : c \in CollectionTexts}
  \cup {ObjectText(<<Member("interestingTweetsOrStories", c),
                     Member("stories", OtherCollectionText)>>) : c \in FewCollectionTexts}
  \cup {ObjectText(<<Member("stories", OtherCollectionText),
                     Member("interestingTweetsOrStories", c)>>) : c \in FewCollectionTexts}
  \cup {ObjectText(<<>>), ObjectText(<<Member("items", OtherCollectionText)>>),
        <<"null">>, <<"5">>, <<"true">>, Quoted("abc"), ArrayText(<<>>),
        OtherCollectionText,
        \* the same object, pretty-printed
        <<"{", "\n", " ", " ">> \o Quoted("stories") \o <<":", " ", "[", "\n">>
          \o ItemText("absent", "set", "absent", "set") \o <<"\n", "]", "\n", "}">>}

BrokenTexts ==
  {<<"{">>, <<"{">> \o Quoted("interestingTweetsOrStories") \o <<":", "[">>,
   <<"{">> \o Member("stories", ArrayText(<<>>)) \o <<",", "}">>,
   <<"Sorry">>, <<" ">>,
   <<"{">> \o Member("stories", <<"\"", "a", "\n", "b", "\"">>) \o <<"}">>,
   ObjectText(<<>>) \o ObjectText(<<>>)}

\* the texts that are also written inside code fences
FencedBodies ==
  {ObjectText(<<Member("interestingTweetsOrStories", ArrayText(<<>>))>>),
   ObjectText(<<Member("stories", OtherCollectionText)>>),
   <<"{">>}

Gaps == UNION {[1..n -> {" ", "\n"}] : n \in 0..MaxGap}
Fence == <<BT, BT, BT>>
FenceTags == {<<>>, <<"json">>}
LeadingFences == {Fence \o tag \o gap : tag \in FenceTags, gap \in Gaps}
TrailingFences == {before \o Fence \o after : before \in {<<>>, <<"\n">>},
                                              after \in {<<>>, <<"\n">>}}

\* what the awaited call can come to: a rejection, a reply with no choice,
\* a first choice with content null, or a first choice with text
Reply(kind, lead, body, trail) ==
  [kind |-> kind, lead |-> lead, body |-> body, trail |-> trail]
NoReply == Reply("none", <<>>, <<>>, <<>>)
Rejections == {Reply("rejected", <<>>, <<>>, <<>>)}
Replies ==
  {Reply("nochoices", <<>>, <<>>, <<>>), Reply("null", <<>>, <<>>, <<>>),
   Reply("text", <<>>, <<>>, <<>>)}
  \cup {Reply("text", <<>>, b, <<>>) : b \in WellFormedTexts \cup BrokenTexts}
  \cup {Reply("text", l, b, t) : l \in LeadingFences \cup {<<>>}, b \in FencedBodies,
                                 t \in TrailingFences \cup {<<>>}}

\* completion.choices[0].message.content of a reply that has a first choice
Content(c) == IF c.kind = "null" THEN Null ELSE Text(c.lead \o c.body \o c.trail)

(***************************************************************************)
(* The inputs of one invocation.                                           *)
(***************************************************************************)
\* process.env.X: unset, set to the empty string, or set to a key
KeyValues(key) == {Undefined, Str(""), Str(key)}
RawInputs == {"", "Story one"}
Dates == {"11/3/2026", "3.11.2026"}

SystemInstruction ==
  "You are a helpful assistant that creates a concise, bullet-pointed draft post based on input stories and tweets. "
  \o "Return strictly valid JSON that has a key 'interestingTweetsOrStories' containing an array of items. "
  \o "Each item should have a 'description' and a 'story_or_tweet_link' key."

OpenAIURL == "https://api.openai.com"
DeepseekURL == "https://api.deepseek.com"

ErrorString == <<"Error generating draft post.">>
NoOutput == "No output."
NoneFound == "No trending stories or tweets found at this time."
Bullet == "<U+2022> "
Indent == "\n  "
BlankLine == "\n\n"

\* line 17
header == "<U+1F680> AI and LLM Trends on X for " \o currentDate \o BlankLine

Stages == {"Idle", "ProviderSelected", "RequestBuilt", "AwaitingCompletion",
           "ResponseReceived", "Sanitized", "Normalized", "Formatted", "Failed"}

Init ==
  /\ env \in [OPENAI_API_KEY : KeyValues("sk-openai"),
              DEEPSEEK_API_KEY : KeyValues("sk-deepseek")]
  /\ rawStories \in RawInputs
  /\ currentDate \in Dates
  /\ stage = "Idle"
  /\ useOpenAI = FALSE
  /\ useDeepseek = FALSE
  /\ messages = <<>>
  /\ requests = <<>>
  /\ completion = NoReply
  /\ rawJSON = Undefined
  /\ cleanJSON = Undefined
  /\ parsedResponse = Undefined
  /\ contentArray = Undefined
  /\ result = <<>>
  /\ error = "none"

(***************************************************************************)
(* catch (error), lines 110-113: whatever was thrown inside the try block  *)
(* is logged and the fixed string is returned.                             *)
(***************************************************************************)
\* variant: the catch returns what was built so far
CatchKeepsDraft(e) ==
  /\ stage' = "Failed"
  /\ error' = e
  /\ result' = <<header>>

\* variant: the catch starts the invocation over
CatchRetries(e) ==
  /\ stage' = "Idle"
  /\ error' = e
  /\ result' = result

Catch(e) ==
  /\ stage' = "Failed"
  /\ error' = e
  /\ result' = ErrorString

\* return value, lines 78, 94, 109
Return(draft) ==
  /\ stage' = "Formatted"
  /\ result' = draft
  /\ error' = error

(***************************************************************************)
(* Lines 16-25: the header, the two flags, and the throw when both are off  *)
(***************************************************************************)
\* variant: the Deepseek key takes priority
UsesOpenAIDeepseekFirst(e) == Truthy(e.OPENAI_API_KEY) /\ ~Truthy(e.DEEPSEEK_API_KEY)
UsesOpenAI(e) == Truthy(e.OPENAI_API_KEY)
UsesDeepseek(e) == Truthy(e.DEEPSEEK_API_KEY) /\ ~UsesOpenAI(e)

SelectProvider ==
  /\ stage = "Idle"
  /\ useOpenAI' = UsesOpenAI(env)
  /\ useDeepseek' = UsesDeepseek(env)
  /\ IF ~useOpenAI' /\ ~useDeepseek'
     THEN Catch("Error: No API keys found")
     ELSE stage' = "ProviderSelected" /\ UNCHANGED <<result, error>>
  /\ UNCHANGED <<env, rawStories, currentDate, messages, requests, completion,
                 rawJSON, cleanJSON, parsedResponse, contentArray>>

(***************************************************************************)
(* Lines 28-40: the two messages                                           *)
(***************************************************************************)
Messages(raw) ==
  <<[role |-> "system", content |-> SystemInstruction],
    [role |-> "user", content |-> raw]>>

BuildRequest ==
  /\ stage = "ProviderSelected"
  /\ messages' = Messages(rawStories)
  /\ stage' = "RequestBuilt"
  /\ UNCHANGED <<env, rawStories, currentDate, useOpenAI, useDeepseek, requests,
                 completion, rawJSON, cleanJSON, parsedResponse, contentArray,
                 result, error>>

(***************************************************************************)
(* Lines 44-56 and 59-71: the client for the selected provider is made and *)
(* chat.completions.create is called; the function then awaits.            *)
(***************************************************************************)
OpenAIRequest ==
  [baseURL |-> OpenAIURL, apiKey |-> env.OPENAI_API_KEY,
   model |-> "gpt-3.5-turbo", messages |-> messages]

DeepseekRequest ==
  [baseURL |-> DeepseekURL, apiKey |-> env.DEEPSEEK_API_KEY,
   model |-> "deepseek-chat", messages |-> messages]

SendRequest ==
  /\ stage = "RequestBuilt"
  /\ requests' = Append(requests, IF useOpenAI THEN OpenAIRequest ELSE DeepseekRequest)
  /\ stage' = "AwaitingCompletion"
  /\ UNCHANGED <<env, rawStories, currentDate, useOpenAI, useDeepseek, messages,
                 completion, rawJSON, cleanJSON, parsedResponse, contentArray,
                 result, error>>

(***************************************************************************)
(* The awaited promise rejects (network or provider error): the throw      *)
(* lands in the catch.                                                     *)
(***************************************************************************)
\* variant: a rejected call is retried on the other provider
CompletionRejectedRetry ==
  /\ stage = "AwaitingCompletion"
  /\ \E c \in Rejections : completion' = c
  /\ requests' = Append(requests, IF useOpenAI THEN DeepseekRequest ELSE OpenAIRequest)
  /\ UNCHANGED <<stage, result, error>>
  /\ UNCHANGED <<env, rawStories, currentDate, useOpenAI, useDeepseek, messages,
                 rawJSON, cleanJSON, parsedResponse, contentArray>>

CompletionRejected ==
  /\ stage = "AwaitingCompletion"
  /\ \E c \in Rejections : completion' = c
  /\ Catch("TransportError")
  /\ UNCHANGED <<env, rawStories, currentDate, useOpenAI, useDeepseek, messages,
                 requests, rawJSON, cleanJSON, parsedResponse, contentArray>>

(***************************************************************************)
(* The awaited promise resolves, lines 58 and 73:                          *)
(* rawJSON = completion.choices[0].message.content                         *)
(***************************************************************************)
CompletionReceived ==
  /\ stage = "AwaitingCompletion"
  /\ \E c \in Replies :
       /\ completion' = c
       /\ IF c.kind = "nochoices"
          THEN Catch("TypeError: choices[0] is undefined") /\ UNCHANGED rawJSON
          ELSE /\ rawJSON' = Content(c)
               /\ stage' = "ResponseReceived"
               /\ UNCHANGED <<result, error>>
  /\ UNCHANGED <<env, rawStories, currentDate, useOpenAI, useDeepseek, messages,
                 requests, cleanJSON, parsedResponse, contentArray>>

(***************************************************************************)
(* Lines 76-86: no content returns the header and "No output."; any other  *)
(* content is cleaned of its code fences.                                  *)
(***************************************************************************)
\* variant: the fallback sentence without the header
NoOutputDraftBare == <<NoOutput>>
NoOutputDraft == <<header, NoOutput>>

CheckOutput ==
  /\ stage = "ResponseReceived"
  /\ IF ~Truthy(rawJSON)
     THEN Return(NoOutputDraft) /\ UNCHANGED cleanJSON
     ELSE /\ cleanJSON' = Text(Sanitize(rawJSON.v))
          /\ stage' = "Sanitized"
          /\ UNCHANGED <<result, error>>
  /\ UNCHANGED <<env, rawStories, currentDate, useOpenAI, useDeepseek, messages,
                 requests, completion, rawJSON, parsedResponse, contentArray>>

(***************************************************************************)
(* Lines 88-92: JSON.parse, then                                           *)
(* parsedResponse.interestingTweetsOrStories || parsedResponse.stories || [] *)
(***************************************************************************)
SelectContent(p) ==
  OrElse(OrElse(GetProp(p, "interestingTweetsOrStories"), GetProp(p, "stories")),
         Arr(<<>>))

Normalize ==
  /\ stage = "Sanitized"
  /\ \E p \in {JSONparse(cleanJSON.v)} :
       IF ~p.ok
       THEN Catch("SyntaxError") /\ UNCHANGED <<parsedResponse, contentArray>>
       ELSE /\ parsedResponse' = p.val
            /\ IF ~Readable(p.val)
               THEN Catch("TypeError: cannot read properties of null")
                    /\ UNCHANGED contentArray
               ELSE /\ contentArray' = SelectContent(p.val)
                    /\ stage' = "Normalized"
                    /\ UNCHANGED <<result, error>>
  /\ UNCHANGED <<env, rawStories, currentDate, useOpenAI, useDeepseek, messages,
                 requests, completion, rawJSON, cleanJSON>>

(***************************************************************************)
(* Lines 93-109: the empty collection, or one block per item               *)
(***************************************************************************)
\* variant: the fallback key names are tried first
RenderItemFallbackFirst(item) ==
  <<Bullet, ToStr(OrElse(GetProp(item, "headline"), GetProp(item, "description"))),
    Indent,
    ToStr(OrElse(GetProp(item, "link"), GetProp(item, "story_or_tweet_link")))>>

\* the template literal of lines 103-105
RenderItem(item) ==
  <<Bullet, ToStr(OrElse(GetProp(item, "description"), GetProp(item, "headline"))),
    Indent,
    ToStr(OrElse(GetProp(item, "story_or_tweet_link"), GetProp(item, "link")))>>

\* variant: the last item is left out
RECURSIVE JoinBlocksDropsLast(_)
JoinBlocksDropsLast(items) ==
  IF Len(items) <= 1 THEN <<>>
  ELSE IF Len(items) = 2 THEN RenderItem(items[1])
  ELSE RenderItem(Head(items)) \o <<BlankLine>> \o JoinBlocksDropsLast(Tail(items))

RECURSIVE JoinBlocks(_)
\* .map(...).join("\n\n") of lines 100-107
JoinBlocks(items) ==
  IF items = <<>> THEN <<>>
  ELSE IF Len(items) = 1 THEN RenderItem(items[1])
  ELSE RenderItem(Head(items)) \o <<BlankLine>> \o JoinBlocks(Tail(items))

\* variant: the header alone
NoneFoundDraftBare == <<header>>
NoneFoundDraft == <<header, NoneFound>>

Format ==
  /\ stage = "Normalized"
  /\ IF GetProp(contentArray, "length") = Num(0)
     THEN Return(NoneFoundDraft)
     ELSE IF GetProp(contentArray, "map").t # "fn"
     THEN Catch("TypeError: contentArray.map is not a function")
     ELSE IF \E i \in 1..Len(contentArray.v) : ~Readable(contentArray.v[i])
     THEN Catch("TypeError: cannot read properties of null")
     ELSE Return(<<header>> \o JoinBlocks(contentArray.v))
  /\ UNCHANGED <<env, rawStories, currentDate, useOpenAI, useDeepseek, messages,
                 requests, completion, rawJSON, cleanJSON, parsedResponse,
                 contentArray>>

Next ==
  \/ SelectProvider
  \/ BuildRequest
  \/ SendRequest
  \/ CompletionRejected
  \/ CompletionReceived
  \/ CheckOutput
  \/ Normalize
  \/ Format

Spec == Init /\ [][Next]_vars

\* the steps of the function itself are taken once they can be; whether the
\* provider ever answers is up to the provider
FairSpec ==
  /\ Spec
  /\ WF_vars(SelectProvider)
  /\ WF_vars(BuildRequest)
  /\ WF_vars(SendRequest)
  /\ WF_vars(CheckOutput)
  /\ WF_vars(Normalize)
  /\ WF_vars(Format)

(***************************************************************************)
(* Vocabulary of the properties.                                           *)
(***************************************************************************)
Terminal == stage \in {"Formatted", "Failed"}
Present(key) == key.t = "str" /\ key.v # ""
NoKeys == ~Present(env.OPENAI_API_KEY) /\ ~Present(env.DEEPSEEK_API_KEY)
BeforeRequest == stage \in {"Idle", "ProviderSelected", "RequestBuilt"}
ParsedOk == cleanJSON.t = "text" /\ stage # "Sanitized" /\ JSONparse(cleanJSON.v).ok
IsArray(x) == x.t = "arr"
NonEmptyString(x) == x.t = "str" /\ x.v # ""

\* the texts of the examples of the specification
FallbackKeysText ==
  ObjectText(<<Member("stories",
     ArrayText(<<ObjectText(<<Member("headline", Quoted("A")),
                              Member("link", Quoted("http://x"))>>)>>))>>)
TwoItemsText ==
  ObjectText(<<Member("interestingTweetsOrStories",
     ArrayText(<<ObjectText(<<Member("description", Quoted("B")),
                              Member("story_or_tweet_link", Quoted("http://y"))>>),
                 ObjectText(<<Member("description", Quoted("C")),
                              Member("story_or_tweet_link", Quoted("http://z"))>>)>>))>>)

(***************************************************************************)
(* C1: the provider is decided by the two credential flags alone.  With    *)
(* the OpenAI key present every request goes to the OpenAI endpoint, also  *)
(* when the Deepseek key is present; with only the Deepseek key present it *)
(* goes to the Deepseek endpoint; with neither, nothing is sent and the    *)
(* result is exactly the error string.  This for every raw input.          *)
(***************************************************************************)
ProviderSelectedByFlags ==
  /\ Present(env.OPENAI_API_KEY) =>
       /\ \A i \in 1..Len(requests) : requests[i].baseURL = OpenAIURL
       /\ ~BeforeRequest => requests # <<>>
  /\ (~Present(env.OPENAI_API_KEY) /\ Present(env.DEEPSEEK_API_KEY)) =>
       /\ \A i \in 1..Len(requests) : requests[i].baseURL = DeepseekURL
       /\ ~BeforeRequest => requests # <<>>
  /\ NoKeys =>
       /\ requests = <<>>
       /\ stage \in {"Idle", "Failed"}
       /\ stage = "Failed" => result = <<"Error generating draft post.">>

BothKeysGoToOpenAI ==
  /\ Present(env.OPENAI_API_KEY)
  /\ Present(env.DEEPSEEK_API_KEY)
  /\ Len(requests) = 1
  /\ requests[1].baseURL = OpenAIURL
  /\ requests[1].apiKey = Str("sk-openai")

(***************************************************************************)
(* C2: every failure (no credential, a rejected completion call, a text    *)
(* that does not parse) ends the invocation with exactly the error string: *)
(* a result is there, it carries no header and no partial draft, and it is *)
(* the same for every kind of error.                                       *)
(***************************************************************************)
FailuresGiveErrorString ==
  /\ (error # "none" \/ stage = "Failed") =>
       stage = "Failed" /\ error # "none"
       /\ result = <<"Error generating draft post.">>
  /\ (NoKeys /\ stage # "Idle") => stage = "Failed"
  /\ completion.kind = "rejected" => stage = "Failed"
  /\ (cleanJSON.t = "text" /\ stage # "Sanitized" /\ ~JSONparse(cleanJSON.v).ok) =>
       stage = "Failed"
  /\ (completion.body = <<"{">> /\ stage \in {"Normalized", "Formatted", "Failed"}) =>
       stage = "Failed"

TruncatedTextFailed ==
  /\ stage = "Failed"
  /\ error = "SyntaxError"
  /\ completion.body = <<"{">>
  /\ completion.lead = Fence \o <<"json", "\n">>
  /\ result = ErrorString

(***************************************************************************)
(* C3: when the first choice has no content the result is the header       *)
(* followed by "No output."; this is decided before anything is sanitized  *)
(* or parsed, and it is a normal result, not the error string.             *)
(***************************************************************************)
AbsentContentGivesNoOutput ==
  completion.kind = "null" =>
    /\ stage \in {"ResponseReceived", "Formatted"}
    /\ cleanJSON = Undefined
    /\ parsedResponse = Undefined
    /\ error = "none"
    /\ stage = "Formatted" => result = <<header, "No output.">>

NoOutputReturned ==
  /\ completion.kind = "null"
  /\ stage = "Formatted"
  /\ result = <<header, "No output.">>

YieldsCollection(p, k) == p.t = "obj" /\ IsArray(GetProp(p, k))

(***************************************************************************)
(* C4: after a successful parse, whenever neither interestingTweetsOrStories *)
(* nor stories yields a collection (the key is missing, or the parsed      *)
(* value has any other shape) the collection counts as empty and the       *)
(* result is the header followed by "No trending stories or tweets found   *)
(* at this time.", not the error string.                                   *)
(***************************************************************************)
NoCollectionCountsAsEmpty ==
  (/\ ParsedOk
   /\ stage # "Normalized"
   /\ ~YieldsCollection(parsedResponse, "interestingTweetsOrStories")
   /\ ~YieldsCollection(parsedResponse, "stories")) =>
    /\ stage = "Formatted"
    /\ result = <<header, "No trending stories or tweets found at this time.">>

FirstNonEmpty(item, first, second) ==
  IF NonEmptyString(GetProp(item, first)) THEN GetProp(item, first).v
  ELSE GetProp(item, second).v

Decides(item, first, second) ==
  NonEmptyString(GetProp(item, first)) \/ NonEmptyString(GetProp(item, second))

(***************************************************************************)
(* C5: in the block of every item the description is the item's            *)
(* description, or its headline when it has no (non-empty) description,    *)
(* and the link is its story_or_tweet_link, or its link when it has no     *)
(* (non-empty) story_or_tweet_link; each field and each item on its own.   *)
(***************************************************************************)
FieldsFromEitherKey ==
  (stage = "Formatted" /\ IsArray(contentArray)) =>
    \A i \in 1..Len(contentArray.v) :
      LET item == contentArray.v[i] IN
      item.t = "obj" =>
        /\ Decides(item, "description", "headline") =>
             result[5 * i - 2] = FirstNonEmpty(item, "description", "headline")
        /\ Decides(item, "story_or_tweet_link", "link") =>
             result[5 * i] = FirstNonEmpty(item, "story_or_tweet_link", "link")

FallbackKeysRendered ==
  /\ stage = "Formatted"
  /\ completion.body = FallbackKeysText
  /\ result = <<header, "<U+2022> ", "A", "\n  ", "http://x">>

(***************************************************************************)
(* C6: a collection of n >= 1 items gives exactly n blocks in the order of *)
(* the collection, block i being the bullet, description i, a newline and  *)
(* two spaces, link i, with one blank line between two blocks and none     *)
(* after the last.  (An item that is null has no fields to read.)          *)
(***************************************************************************)
OneBlockPerItemInOrder ==
  (/\ IsArray(contentArray)
   /\ stage # "Normalized"
   /\ Len(contentArray.v) >= 1
   /\ \A i \in 1..Len(contentArray.v) : contentArray.v[i].t # "null") =>
    LET n == Len(contentArray.v) IN
    /\ stage = "Formatted"
    /\ Len(result) = 5 * n
    /\ result[1] = header
    /\ \A i \in 1..n :
         /\ SubSeq(result, 5 * i - 3, 5 * i) = RenderItem(contentArray.v[i])
         /\ result[5 * i - 3] = "<U+2022> "
         /\ result[5 * i - 1] = "\n  "
         /\ i < n => result[5 * i + 1] = "\n\n"

TwoBlocksInOrder ==
  /\ stage = "Formatted"
  /\ completion.body = TwoItemsText
  /\ result = <<header, "<U+2022> ", "B", "\n  ", "http://y", "\n\n",
                "<U+2022> ", "C", "\n  ", "http://z">>

NoBacktick(s) == \A i \in 1..Len(s) : s[i] # BT

(***************************************************************************)
(* C7: for a text T without backticks, T between a leading fence (three    *)
(* backticks, with or without the tag json, then any white space) and a    *)
(* trailing fence is sanitized to the same text as bare T, namely T        *)
(* trimmed; a text without fences is only trimmed.                         *)
(***************************************************************************)
FencedSanitizesLikeBare ==
  (/\ cleanJSON.t = "text"
   /\ NoBacktick(completion.body)
   /\ \/ completion.lead \in LeadingFences /\ completion.trail \in TrailingFences
      \/ completion.lead = <<>> /\ completion.trail = <<>>) =>
    /\ cleanJSON.v = Trim(completion.body)
    /\ cleanJSON.v = Sanitize(completion.body)

IsBulletBody(b) ==
  /\ Len(b) >= 4
  /\ Len(b) % 5 = 4
  /\ \A k \in 0..(Len(b) \div 5) :
       /\ b[5 * k + 1] = "<U+2022> "
       /\ b[5 * k + 3] = "\n  "
       /\ k > 0 => b[5 * k] = "\n\n"

(***************************************************************************)
(* C8: what is returned is either exactly the error string, or the header  *)
(* followed by a body that is not empty: "No output.", "No trending        *)
(* stories or tweets found at this time.", or one or more bullet blocks.   *)
(***************************************************************************)
OutputShape ==
  /\ ~Terminal => result = <<>>
  /\ Terminal =>
       \/ result = <<"Error generating draft post.">>
       \/ /\ Len(result) >= 2
          /\ result[1] = header
          /\ \/ Tail(result) = <<"No output.">>
             \/ Tail(result) = <<"No trending stories or tweets found at this time.">>
             \/ IsBulletBody(Tail(result))

BulletDraftReturned ==
  /\ stage = "Formatted"
  /\ Len(result) = 10
  /\ IsBulletBody(Tail(result))

Rank(s) ==
  CASE s = "Idle" -> 0
    [] s = "ProviderSelected" -> 1
    [] s = "RequestBuilt" -> 2
    [] s = "AwaitingCompletion" -> 3
    [] s = "ResponseReceived" -> 4
    [] s = "Sanitized" -> 5
    [] s = "Normalized" -> 6
    [] OTHER -> 7

StepForward ==
  /\ stage \notin {"Formatted", "Failed"}
  /\ stage' = "Failed" \/ Rank(stage') > Rank(stage)

(***************************************************************************)
(* C9: the stages are passed only forward, in the order Idle,              *)
(* ProviderSelected, RequestBuilt, ResponseReceived, Sanitized,            *)
(* Normalized, Formatted; any stage may go to Failed instead; Formatted    *)
(* and Failed are final; and once the provider call has returned or        *)
(* failed (or no provider could be selected) one of the two is reached.    *)
(***************************************************************************)
StagesForwardToOneEnd ==
  /\ [][StepForward]_vars
  /\ (completion # NoReply) ~> Terminal
  /\ NoKeys ~> (stage = "Failed")

FormattedAfterAllStages ==
  /\ stage = "Formatted"
  /\ completion.kind = "text"
  /\ cleanJSON.t = "text"
  /\ IsArray(contentArray)
  /\ Len(requests) = 1

(***************************************************************************)
(* C10: at most one request is sent per invocation, to one backend, with   *)
(* exactly two messages: the system instruction, then the raw input as the *)
(* user message; none is sent when no provider can be selected, and no     *)
(* second one after a failure.                                             *)
(***************************************************************************)
AtMostOneRequest ==
  /\ Len(requests) <= 1
  /\ BeforeRequest => requests = <<>>
  /\ (stage = "Failed" /\ NoKeys) => requests = <<>>
  /\ \A i \in 1..Len(requests) :
       /\ requests[i].baseURL \in {OpenAIURL, DeepseekURL}
       /\ Len(requests[i].messages) = 2
       /\ requests[i].messages[1] = [role |-> "system", content |-> SystemInstruction]
       /\ requests[i].messages[2] = [role |-> "user", content |-> rawStories]

OneRequestAfterRejection ==
  /\ stage = "Failed"
  /\ completion.kind = "rejected"
  /\ Len(requests) = 1
  /\ requests[1].messages[2].content = "Story one"

=============================================================================
